---- MODULE Spec2Model ----
(***************************************************************************)
(* Model of fromAtoB/bugsnack: the ErrorReporter implementations           *)
(* BugsnagReporter, MultiReporter and WriterReporter.                      *)
(*                                                                         *)
(* One MultiReporter.Report call ("multi" mode) spawns one goroutine per   *)
(* registered reporter and waits on a sync.WaitGroup; one direct call      *)
(* ("direct" mode) invokes a single reporter with optional metadata; two   *)
(* goroutines ("shared" mode) call one BugsnagReporter concurrently with   *)
(* the same metadata object, whose fields they then test and write without *)
(* synchronisation.                                                        *)
(* BugsnagReporter.Report is split at its blocking points (payload         *)
(* construction, encoding, request construction, transport, status check,  *)
(* deferred drain and close) so that goroutines interleave there.          *)
(***************************************************************************)
EXTENDS Integers, Sequences, FiniteSets, TLC

\* ---------------------------------------------------------------- bounds
MaxReporters == 2

MaxDepth == 2

\* ------------------------------------------------------------- constants
clientVersion == "0.0.3"

StatusOK == 200

LimitBytes == 1024

\* ---------------------------------------------------------------- values
Units == 1..MaxReporters

NoErr == [type |-> "nil", msg |-> "", stack |-> <<>>]

EncodeErr == [type |-> "*json.UnsupportedTypeError", msg |-> "json: unsupported type: chan int", stack |-> <<>>]

RequestErr == [type |-> "*url.Error", msg |-> "parse error", stack |-> <<>>]

TransportErr == [type |-> "*url.Error", msg |-> "Post: dial tcp: connection refused", stack |-> <<>>]

DrainErr == [type |-> "*errors.errorString", msg |-> "unexpected EOF", stack |-> <<>>]

CloseErr == [type |-> "*errors.errorString", msg |-> "close failed", stack |-> <<>>]

DeliveryErr == [type |-> "*errors.fundamental", msg |-> "could not report to bugsnag", stack |-> <<>>]

CallerErrors == { [type |-> "*errors.errorString", msg |-> "bugsnag test", stack |-> <<>>],
                  [type |-> "*net.OpError", msg |-> "net timeout", stack |-> <<>>] }

Ctxs == {"ctxA", "ctxB"}

Statuses == {200, 500}

HostnameResults == {"localhost", ""}

Unencodable == "chan"

EmptyMap == [k \in {} |-> ""]

\* *map[string]interface{}: <<>> is the nil pointer, <<m>> a pointer to m
EventMetadataValues == { <<>>, <<EmptyMap>>, <<[key1 |-> "value1"]>>, <<[key1 |-> Unencodable]>> }

BugsnagMetadata == [ErrorClass : {"", "Timeout"}, Context : {"", "checkout"},
                    GroupingHash : {"", "net.timeout"}, Severity : {"", "warning"},
                    EventMetadata : EventMetadataValues]

ZeroMetadata == [ErrorClass |-> "", Context |-> "", GroupingHash |-> "", Severity |-> "", EventMetadata |-> <<>>]

MultiMetadata == {ZeroMetadata, [ErrorClass |-> "Timeout", Context |-> "checkout", GroupingHash |-> "net.timeout",
                                 Severity |-> "warning", EventMetadata |-> <<[key1 |-> "value1"]>>]}

\* reporter configurations: a BugsnagReporter with its Backup, or a WriterReporter
BugsnagNilBackup == [kind |-> "BugsnagReporter", Backup |-> "nil", Writer |-> "nil", APIKey |-> "key", ReleaseStage |-> "development"]

BugsnagWriterBackup == [kind |-> "BugsnagReporter", Backup |-> "WriterReporter", Writer |-> "stream", APIKey |-> "key", ReleaseStage |-> "development"]

BugsnagMuteBackup == [kind |-> "BugsnagReporter", Backup |-> "WriterReporter", Writer |-> "nil", APIKey |-> "key", ReleaseStage |-> "development"]

WriterStream == [kind |-> "WriterReporter", Backup |-> "nil", Writer |-> "stream", APIKey |-> "", ReleaseStage |-> ""]

WriterNil == [kind |-> "WriterReporter", Backup |-> "nil", Writer |-> "nil", APIKey |-> "", ReleaseStage |-> ""]

DirectReporters == {BugsnagNilBackup, BugsnagWriterBackup, BugsnagMuteBackup, WriterStream, WriterNil}

MultiReporters == {BugsnagNilBackup, BugsnagWriterBackup, WriterStream}

\* ------------------------------------------------------- stack capture
ReportFrame == [pkg |-> "github.com/fromatob/bugsnack", name |-> "(*BugsnagReporter).Report",
                dir |-> "/go/src/github.com/fromatob/bugsnack", base |-> "bugsnag.go", line |-> 47]

GoFuncFrame == [pkg |-> "github.com/fromatob/bugsnack", name |-> "(*MultiReporter).Report.func1",
                dir |-> "/go/src/github.com/fromatob/bugsnack", base |-> "bugsnag.go", line |-> 198]

GoexitFrame == [pkg |-> "runtime", name |-> "goexit", dir |-> "/usr/local/go/src/runtime", base |-> "asm_amd64.s", line |-> 1374]

CallerFrame(i) == [pkg |-> "main", name |-> "handler", dir |-> "/app", base |-> "main.go", line |-> 10 * i + 9]

CallerStack(depth) == [i \in 1..depth |-> CallerFrame(i)]

\* errors.WithStack: wraps err in a *withStack carrying the stack captured at the call
WithStack(err, callers) == [type |-> "*errors.withStack", msg |-> err.msg, stack |-> <<ReportFrame>> \o callers]

\* reflect.TypeOf(err).String()
TypeOf(err) == err.type

\* fmt.Sprintf("%d", n): the decimal digits of n
RECURSIVE Sprintf_d(_)
Sprintf_d(n) == IF n < 10 THEN <<n>> ELSE Append(Sprintf_d(n \div 10), n % 10)

\* strconv.Atoi on a digit string
RECURSIVE Atoi(_)
Atoi(ds) == IF ds = <<>> THEN 0 ELSE 10 * Atoi(SubSeq(ds, 1, Len(ds) - 1)) + ds[Len(ds)]

\* mutant: the entries are emitted outermost frame first
formatStack_Reversed(s) ==
    [i \in 1..Len(s) |-> [method |-> s[Len(s) + 1 - i].name, file |-> s[Len(s) + 1 - i].base,
                          lineNumber |-> Atoi(Sprintf_d(s[Len(s) + 1 - i].line))]]

formatStack(s) == [i \in 1..Len(s) |-> [method |-> s[i].name, file |-> s[i].base, lineNumber |-> Atoi(Sprintf_d(s[i].line))]]

\* ------------------------------------------------- payload construction
\* mutant: the severity is set to "error" whether or not the caller gave one
populateMetadata_SeverityAlways(metadata, err) ==
    LET m1 == IF metadata.ErrorClass = "" THEN [metadata EXCEPT !.ErrorClass = TypeOf(err)] ELSE metadata
    IN  [m1 EXCEPT !.Severity = "error"]

populateMetadata(metadata, err) ==
    LET m1 == IF metadata.ErrorClass = "" THEN [metadata EXCEPT !.ErrorClass = TypeOf(err)] ELSE metadata
    IN  IF m1.Severity = "" THEN [m1 EXCEPT !.Severity = "error"] ELSE m1

\* mutant: a pointer to a map without entries counts as zero too
IsZeroInterface_AlsoEmpty(i) == i = <<>> \/ DOMAIN i[1] = {}

\* i == reflect.Zero(reflect.TypeOf(i)).Interface(): for a pointer, the nil pointer
IsZeroInterface(i) == i = <<>>

\* mutant: groupingHash and context are always put into the event
newEvent_AlwaysKeys(er, err, metadata, host) ==
    LET event == [PayloadVersion |-> "2",
                  exceptions |-> << [errorClass |-> metadata.ErrorClass,
                                     message |-> err.msg,
                                     stacktrace |-> formatStack(Tail(err.stack))] >>,
                  severity |-> metadata.Severity,
                  app |-> [releaseStage |-> er.ReleaseStage],
                  device |-> [hostname |-> host]]
        gh == "groupingHash" :> metadata.GroupingHash
        cx == "context" :> metadata.Context
        md == IF ~IsZeroInterface(metadata.EventMetadata) THEN "metaData" :> metadata.EventMetadata ELSE EmptyMap
    IN  event @@ gh @@ cx @@ md

newEvent(er, err, metadata, host) ==
    LET event == [PayloadVersion |-> "2",
                  exceptions |-> << [errorClass |-> metadata.ErrorClass,
                                     message |-> err.msg,
                                     stacktrace |-> formatStack(Tail(err.stack))] >>,
                  severity |-> metadata.Severity,
                  app |-> [releaseStage |-> er.ReleaseStage],
                  device |-> [hostname |-> host]]
        gh == IF "" # metadata.GroupingHash THEN "groupingHash" :> metadata.GroupingHash ELSE EmptyMap
        cx == IF "" # metadata.Context THEN "context" :> metadata.Context ELSE EmptyMap
        md == IF ~IsZeroInterface(metadata.EventMetadata) THEN "metaData" :> metadata.EventMetadata ELSE EmptyMap
    IN  event @@ gh @@ cx @@ md

\* newPayload applied to the already populated metadata
newPayload(er, err, metadata, host) ==
    [apiKey |-> er.APIKey,
     notifier |-> [name |-> "Bugsnack/Bugsnag", url |-> "https://github.com/fromatob/bugsnack", version |-> clientVersion],
     events |-> << newEvent(er, err, metadata, host) >>]

\* json.NewEncoder(&b).Encode(payload) succeeds unless a value cannot be marshalled
EncodeOK(payload) ==
    LET ev == payload.events[1]
    IN  "metaData" \in DOMAIN ev =>
            \A k \in DOMAIN ev.metaData[1] : ev.metaData[1][k] # Unencodable

\* ------------------------------------------------------------------ state
VARIABLES
    mode,        \* "multi": one MultiReporter.Report call; "direct": one direct Report call;
                 \* "shared": two concurrent direct calls given the same metadata object
    Reporters,   \* mr.Reporters (multi) or the single reporter called (direct)
    callCtx,     \* ctx argument of the caller's Report call
    callErr,     \* err argument of the caller's Report call
    callMeta,    \* metadata ...interface{} of the caller's call: <<>> or <<"m">> (pointer to callerMeta)
    callerMeta,  \* the caller's *BugsnagMetadata object
    hostname,    \* what os.Hostname() yields on this machine
    depth,       \* number of caller frames above a direct call
    mrpc,        \* position of MultiReporter.Report: "idle", "loop", "wait", "returned"
    idx,         \* number of loop iterations of MultiReporter.Report done
    wg,          \* the sync.WaitGroup counter
    crashed,     \* the process died of an unrecovered goroutine panic
    pc,          \* per unit: position of that reporter's Report call
    inv,         \* per unit: the Report invocations the reporter has observed (arguments,
                 \* and the value the metadata object had when the call was made)
    newErr,      \* per unit: local newErr after errors.WithStack
    mdref,       \* per unit: what local metadata points to: "fresh" or "caller"
    fresh,       \* per unit: the &BugsnagMetadata{} allocated at line 48
    payload,     \* per unit: <<>> or <<payload>> once built
    resp,        \* per unit: status code of the response, 0 before Do returned one
    panicking,   \* per unit: a panic is unwinding the Report frame
    trace,       \* per unit: steps executed, in order
    out          \* bytes written to the shared io.Writer, one element per Write

vars == <<mode, Reporters, callCtx, callErr, callMeta, callerMeta, hostname, depth, mrpc, idx, wg, crashed,
          pc, inv, newErr, mdref, fresh, payload, resp, panicking, trace, out>>

config == <<mode, Reporters, callCtx, callErr, callMeta, hostname, depth>>

\* the failures the environment injects besides a transport error and a non-200
\* status: all of them on a direct call, none under the fan-out (whose claims
\* are about the barrier, not about the tail of a single delivery)
Faults == IF mode = "direct" THEN {"request", "drain", "close"} ELSE {}

\* lengths of the response body the sink sends
BodyLens == IF mode = "direct" THEN {0, 2000} ELSE {0}

\* the (ctx, err, metadata) triples a caller passes to MultiReporter.Report
MultiCalls == { <<"ctxA", [type |-> "*errors.errorString", msg |-> "bugsnag test", stack |-> <<>>], <<>> >>,
                <<"ctxB", [type |-> "*net.OpError", msg |-> "net timeout", stack |-> <<>>], <<"m">> >> }

Min(a, b) == IF a < b THEN a ELSE b

Step(s, e, n) == [step |-> s, err |-> e, n |-> n]

NumReporters == Len(Reporters)

ReporterLists(n) == [1..n -> MultiReporters]

\* the goroutines that call Report concurrently in "shared" mode
SharedCallers == {1, 2}

\* the metadata objects the two concurrent calls are given
SharedMetadata == {m \in BugsnagMetadata : m.Context = "" /\ m.GroupingHash = "" /\ m.EventMetadata = <<>>}

\* a string field caught between the two word stores of an unsynchronised write
Torn == "<torn>"

Init ==
    /\ mode \in {"multi", "direct", "shared"}
    /\ IF mode = "shared"
       THEN /\ Reporters = [u \in SharedCallers |-> BugsnagWriterBackup]
            /\ callCtx = "ctxA"
            /\ callErr \in CallerErrors
            /\ callMeta = <<"m">>
            /\ callerMeta \in SharedMetadata
            /\ hostname = "localhost"
            /\ depth = 1
       ELSE
       IF mode = "multi"
       THEN /\ Reporters \in UNION {ReporterLists(n) : n \in 0..MaxReporters}
            /\ \E c \in MultiCalls : callCtx = c[1] /\ callErr = c[2] /\ callMeta = c[3]
            /\ callerMeta \in MultiMetadata
            /\ callMeta = <<>> <=> callerMeta = ZeroMetadata
            /\ hostname = "localhost"
            /\ depth = 0
       ELSE /\ Reporters \in {<<r>> : r \in DirectReporters}
            /\ callCtx \in Ctxs
            /\ callErr \in CallerErrors
            /\ callMeta \in {<<>>, <<"m">>}
            /\ callerMeta \in BugsnagMetadata
            /\ callMeta = <<>> => callerMeta = ZeroMetadata
            /\ hostname \in HostnameResults
            /\ depth \in 1..MaxDepth
    /\ mrpc = "idle"
    /\ idx = 0
    /\ wg = 0
    /\ crashed = FALSE
    /\ pc = [u \in Units |-> "idle"]
    /\ inv = [u \in Units |-> <<>>]
    /\ newErr = [u \in Units |-> NoErr]
    /\ mdref = [u \in Units |-> "fresh"]
    /\ fresh = [u \in Units |-> ZeroMetadata]
    /\ payload = [u \in Units |-> <<>>]
    /\ resp = [u \in Units |-> 0]
    /\ panicking = [u \in Units |-> FALSE]
    /\ trace = [u \in Units |-> <<>>]
    /\ out = <<>>

\* ------------------------------------------------------- WriterReporter
\* mutant: the newline after the message is missing
WriterReport_NoNewline(writer, err) == IF writer = "nil" THEN <<>> ELSE << err.msg >>

\* WriterReporter.Report: what one call appends to the stream
WriterReport(writer, err) == IF writer = "nil" THEN <<>> ELSE << err.msg \o "\n" >>

\* mutant: the failure is swallowed, the backup is not invoked
BackupReport_Swallow(er, err) == [panic |-> FALSE, log |-> <<>>, writes |-> <<>>]

\* er.Backup.Report(ctx, err) as called by BugsnagReporter.Report:
\* a nil Backup panics (nil interface method call), a WriterReporter writes
BackupReport(er, err) ==
    IF er.Backup = "nil"
    THEN [panic |-> TRUE, log |-> <<>>, writes |-> <<>>]
    ELSE [panic |-> FALSE, log |-> <<Step("backup", err, 0)>>, writes |-> WriterReport(er.Writer, err)]

\* ---------------------------------------------------------- MultiReporter
\* the caller enters MultiReporter.Report: var wg sync.WaitGroup
MultiReport_Enter ==
    /\ ~crashed
    /\ mode = "multi"
    /\ mrpc = "idle"
    /\ mrpc' = "loop"
    /\ wg' = 0
    /\ UNCHANGED <<config, callerMeta, idx, crashed, pc, inv, newErr, mdref, fresh, payload, resp, panicking, trace, out>>

\* mutant: the goroutine reports the error wrapped instead of the caller's error
MultiReport_Spawn_Wrapped ==
    /\ ~crashed
    /\ mrpc = "loop"
    /\ idx < NumReporters
    /\ idx' = idx + 1
    /\ wg' = wg + 1
    /\ pc' = [pc EXCEPT ![idx + 1] = "called"]
    /\ inv' = [inv EXCEPT ![idx + 1] = Append(@, [ctx |-> callCtx, err |-> WithStack(callErr, <<>>), meta |-> <<>>, snapshot |-> ZeroMetadata])]
    /\ UNCHANGED <<config, callerMeta, mrpc, crashed, newErr, mdref, fresh, payload, resp, panicking, trace, out>>

\* mutant: the goroutine forwards the caller's metadata arguments
MultiReport_Spawn_Forward ==
    /\ ~crashed
    /\ mrpc = "loop"
    /\ idx < NumReporters
    /\ idx' = idx + 1
    /\ wg' = wg + 1
    /\ pc' = [pc EXCEPT ![idx + 1] = "called"]
    /\ inv' = [inv EXCEPT ![idx + 1] = Append(@, [ctx |-> callCtx, err |-> callErr, meta |-> callMeta, snapshot |-> callerMeta])]
    /\ UNCHANGED <<config, callerMeta, mrpc, crashed, newErr, mdref, fresh, payload, resp, panicking, trace, out>>

\* one iteration of the range loop: wg.Add(1); go func(wg, er) {...}(&wg, er)
MultiReport_Spawn ==
    /\ ~crashed
    /\ mrpc = "loop"
    /\ idx < NumReporters
    /\ idx' = idx + 1
    /\ wg' = wg + 1
    /\ pc' = [pc EXCEPT ![idx + 1] = "called"]
    /\ inv' = [inv EXCEPT ![idx + 1] = Append(@, [ctx |-> callCtx, err |-> callErr, meta |-> <<>>, snapshot |-> ZeroMetadata])]
    /\ UNCHANGED <<config, callerMeta, mrpc, crashed, newErr, mdref, fresh, payload, resp, panicking, trace, out>>

\* the loop is exhausted: control reaches wg.Wait()
MultiReport_LoopEnd ==
    /\ ~crashed
    /\ mrpc = "loop"
    /\ idx = NumReporters
    /\ mrpc' = "wait"
    /\ UNCHANGED <<config, callerMeta, idx, wg, crashed, pc, inv, newErr, mdref, fresh, payload, resp, panicking, trace, out>>

\* mutant: Report returns without waiting on the barrier
MultiReport_Wait_NoBarrier ==
    /\ ~crashed
    /\ mrpc = "wait"
    /\ mrpc' = "returned"
    /\ UNCHANGED <<config, callerMeta, idx, wg, crashed, pc, inv, newErr, mdref, fresh, payload, resp, panicking, trace, out>>

\* wg.Wait() unblocks once the counter is zero, and Report returns
MultiReport_Wait ==
    /\ ~crashed
    /\ mrpc = "wait"
    /\ wg = 0
    /\ mrpc' = "returned"
    /\ UNCHANGED <<config, callerMeta, idx, wg, crashed, pc, inv, newErr, mdref, fresh, payload, resp, panicking, trace, out>>

\* mutant: wg.Done() is called twice by a goroutine
Go_Done_Twice(u) ==
    /\ ~crashed
    /\ mode = "multi"
    /\ pc[u] \in {"returned", "panicked"}
    /\ wg' = wg - 2
    /\ pc' = [pc EXCEPT ![u] = IF pc[u] = "returned" THEN "done" ELSE "unwound"]
    /\ UNCHANGED <<config, callerMeta, mrpc, idx, crashed, inv, newErr, mdref, fresh, payload, resp, panicking, trace, out>>

\* the goroutine's deferred wg.Done(): runs when er.Report returned, and
\* also while a panic unwinds the goroutine
Go_Done(u) ==
    /\ ~crashed
    /\ mode = "multi"
    /\ pc[u] \in {"returned", "panicked"}
    /\ wg' = wg - 1
    /\ pc' = [pc EXCEPT ![u] = IF pc[u] = "returned" THEN "done" ELSE "unwound"]
    /\ UNCHANGED <<config, callerMeta, mrpc, idx, crashed, inv, newErr, mdref, fresh, payload, resp, panicking, trace, out>>

\* a panic that reached the top of a goroutine terminates the process
Go_Crash(u) ==
    /\ ~crashed
    /\ pc[u] = "unwound"
    /\ crashed' = TRUE
    /\ UNCHANGED <<config, callerMeta, mrpc, idx, wg, pc, inv, newErr, mdref, fresh, payload, resp, panicking, trace, out>>

\* ------------------------------------------------------------ direct call
\* the caller invokes its reporter directly: er.Report(ctx, err, meta...)
Direct_Call ==
    /\ ~crashed
    /\ mode = "direct"
    /\ pc[1] = "idle"
    /\ pc' = [pc EXCEPT ![1] = "called"]
    /\ inv' = [inv EXCEPT ![1] = Append(@, [ctx |-> callCtx, err |-> callErr, meta |-> callMeta, snapshot |-> callerMeta])]
    /\ UNCHANGED <<config, callerMeta, mrpc, idx, wg, crashed, newErr, mdref, fresh, payload, resp, panicking, trace, out>>

\* -------------------------------------------------------- BugsnagReporter
IsBugsnag(u) == u <= NumReporters /\ Reporters[u].kind = "BugsnagReporter"

IsWriter(u) == u <= NumReporters /\ Reporters[u].kind = "WriterReporter"

\* the frames above BugsnagReporter.Report when errors.WithStack captures the stack
Callers == IF mode = "multi" THEN <<GoFuncFrame, GoexitFrame>> ELSE CallerStack(depth)

\* the arguments of the running invocation of unit u
Args(u) == inv[u][Len(inv[u])]

\* the BugsnagMetadata that unit u's local pointer metadata refers to
Metadata(u) == IF mdref[u] = "caller" THEN callerMeta ELSE fresh[u]

\* mutant: the defaults are applied to a copy, the caller's object is left as it was
Report_Payload_Copy(u) ==
    /\ ~crashed
    /\ mode # "shared"
    /\ IsBugsnag(u)
    /\ pc[u] = "called"
    /\ LET e == WithStack(Args(u).err, Callers)
           supplied == Len(Args(u).meta) > 0
           m == populateMetadata(IF supplied THEN callerMeta ELSE ZeroMetadata, e)
       IN  /\ newErr' = [newErr EXCEPT ![u] = e]
           /\ mdref' = [mdref EXCEPT ![u] = "fresh"]
           /\ callerMeta' = callerMeta
           /\ fresh' = [fresh EXCEPT ![u] = m]
           /\ payload' = [payload EXCEPT ![u] = << newPayload(Reporters[u], e, m, hostname) >>]
    /\ trace' = [trace EXCEPT ![u] = Append(@, Step("payload", NoErr, 0))]
    /\ pc' = [pc EXCEPT ![u] = "encode"]
    /\ UNCHANGED <<config, mrpc, idx, wg, crashed, inv, resp, panicking, out>>

\* lines 47-54: wrap the error, resolve the metadata, populate it in place, build the payload
\* (one step where no other running call has the metadata object)
Report_Payload(u) ==
    /\ ~crashed
    /\ mode # "shared"
    /\ IsBugsnag(u)
    /\ pc[u] = "called"
    /\ LET e == WithStack(Args(u).err, Callers)
           supplied == Len(Args(u).meta) > 0
           m == populateMetadata(IF supplied THEN callerMeta ELSE ZeroMetadata, e)
       IN  /\ newErr' = [newErr EXCEPT ![u] = e]
           /\ mdref' = [mdref EXCEPT ![u] = IF supplied THEN "caller" ELSE "fresh"]
           /\ callerMeta' = IF supplied THEN m ELSE callerMeta
           /\ fresh' = [fresh EXCEPT ![u] = IF supplied THEN @ ELSE m]
           /\ payload' = [payload EXCEPT ![u] = << newPayload(Reporters[u], e, m, hostname) >>]
    /\ trace' = [trace EXCEPT ![u] = Append(@, Step("payload", NoErr, 0))]
    /\ pc' = [pc EXCEPT ![u] = "encode"]
    /\ UNCHANGED <<config, mrpc, idx, wg, crashed, inv, resp, panicking, out>>

\* ---- the same lines in "shared" mode, statement by statement: the two calls
\* ---- race on the fields of the one metadata object
\* what a test f == "" can observe of a field: a torn field reads as empty or
\* not, depending on which word the writer has stored
SeenEmpty(v) == IF v = Torn THEN {TRUE, FALSE} ELSE {v = ""}

\* the two goroutines are started, each calling er.Report(ctx, err, m)
Shared_Call ==
    /\ ~crashed
    /\ mode = "shared"
    /\ \A u \in SharedCallers : pc[u] = "idle"
    /\ pc' = [u \in Units |-> IF u \in SharedCallers THEN "called" ELSE pc[u]]
    /\ inv' = [u \in Units |-> IF u \in SharedCallers
                                THEN Append(inv[u], [ctx |-> callCtx, err |-> callErr, meta |-> callMeta, snapshot |-> callerMeta])
                                ELSE inv[u]]
    /\ UNCHANGED <<config, callerMeta, mrpc, idx, wg, crashed, newErr, mdref, fresh, payload, resp, panicking, trace, out>>

\* lines 47-52 and the test of line 38: metadata.ErrorClass == ""
Report_Resolve(u) ==
    /\ ~crashed
    /\ mode = "shared"
    /\ pc[u] = "called"
    /\ newErr' = [newErr EXCEPT ![u] = WithStack(Args(u).err, Callers)]
    /\ mdref' = [mdref EXCEPT ![u] = "caller"]
    /\ \E empty \in SeenEmpty(callerMeta.ErrorClass) :
          pc' = [pc EXCEPT ![u] = IF empty THEN "class1" ELSE "sev0"]
    /\ UNCHANGED <<config, callerMeta, mrpc, idx, wg, crashed, inv, fresh, payload, resp, panicking, trace, out>>

\* line 39, first word of the string store: a field that was empty is torn now
Report_StoreClass(u) ==
    /\ ~crashed
    /\ pc[u] = "class1"
    /\ callerMeta' = [callerMeta EXCEPT !.ErrorClass = IF @ = "" THEN Torn ELSE @]
    /\ pc' = [pc EXCEPT ![u] = "class2"]
    /\ UNCHANGED <<config, mrpc, idx, wg, crashed, inv, newErr, mdref, fresh, payload, resp, panicking, trace, out>>

\* line 39, second word: metadata.ErrorClass = reflect.TypeOf(err).String() is complete
Report_StoredClass(u) ==
    /\ ~crashed
    /\ pc[u] = "class2"
    /\ callerMeta' = [callerMeta EXCEPT !.ErrorClass = TypeOf(newErr[u])]
    /\ trace' = [trace EXCEPT ![u] = Append(@, Step("write_class", NoErr, 0))]
    /\ pc' = [pc EXCEPT ![u] = "sev0"]
    /\ UNCHANGED <<config, mrpc, idx, wg, crashed, inv, newErr, mdref, fresh, payload, resp, panicking, out>>

\* the test of line 41: metadata.Severity == ""
Report_TestSeverity(u) ==
    /\ ~crashed
    /\ pc[u] = "sev0"
    /\ \E empty \in SeenEmpty(callerMeta.Severity) :
          pc' = [pc EXCEPT ![u] = IF empty THEN "sev1" ELSE "build"]
    /\ UNCHANGED <<config, callerMeta, mrpc, idx, wg, crashed, inv, newErr, mdref, fresh, payload, resp, panicking, trace, out>>

\* line 42, first word of the string store
Report_StoreSeverity(u) ==
    /\ ~crashed
    /\ pc[u] = "sev1"
    /\ callerMeta' = [callerMeta EXCEPT !.Severity = IF @ = "" THEN Torn ELSE @]
    /\ pc' = [pc EXCEPT ![u] = "sev2"]
    /\ UNCHANGED <<config, mrpc, idx, wg, crashed, inv, newErr, mdref, fresh, payload, resp, panicking, trace, out>>

\* line 42, second word: metadata.Severity = "error" is complete
Report_StoredSeverity(u) ==
    /\ ~crashed
    /\ pc[u] = "sev2"
    /\ callerMeta' = [callerMeta EXCEPT !.Severity = "error"]
    /\ trace' = [trace EXCEPT ![u] = Append(@, Step("write_severity", NoErr, 0))]
    /\ pc' = [pc EXCEPT ![u] = "build"]
    /\ UNCHANGED <<config, mrpc, idx, wg, crashed, inv, newErr, mdref, fresh, payload, resp, panicking, out>>

\* lines 95-107: the payload is built from the fields as they are now; a torn
\* string (length without data pointer) faults when its bytes are read
Report_Build(u) ==
    /\ ~crashed
    /\ pc[u] = "build"
    /\ IF Torn \in {callerMeta.ErrorClass, callerMeta.Severity}
       THEN /\ panicking' = [panicking EXCEPT ![u] = TRUE]
            /\ pc' = [pc EXCEPT ![u] = "panicked"]
            /\ UNCHANGED <<payload, trace>>
       ELSE /\ payload' = [payload EXCEPT ![u] = << newPayload(Reporters[u], newErr[u], callerMeta, hostname) >>]
            /\ trace' = [trace EXCEPT ![u] = Append(@, Step("payload", NoErr, 0))]
            /\ pc' = [pc EXCEPT ![u] = "encode"]
            /\ UNCHANGED panicking
    /\ UNCHANGED <<config, callerMeta, mrpc, idx, wg, crashed, inv, newErr, mdref, fresh, resp, out>>

\* mutant: the return after the backup call of an encoding error is missing
Report_Encode_NoReturn(u) ==
    /\ ~crashed
    /\ pc[u] = "encode"
    /\ IF EncodeOK(payload[u][1])
       THEN /\ trace' = [trace EXCEPT ![u] = Append(@, Step("encode", NoErr, 0))]
            /\ pc' = [pc EXCEPT ![u] = "request"]
            /\ UNCHANGED <<panicking, out>>
       ELSE LET b == BackupReport(Reporters[u], EncodeErr)
            IN  /\ trace' = [trace EXCEPT ![u] = Append(@, Step("encode", EncodeErr, 0)) \o b.log]
                /\ out' = out \o b.writes
                /\ panicking' = [panicking EXCEPT ![u] = b.panic]
                /\ pc' = [pc EXCEPT ![u] = IF b.panic THEN "panicked" ELSE "request"]
    /\ UNCHANGED <<config, callerMeta, mrpc, idx, wg, crashed, inv, newErr, mdref, fresh, payload, resp>>

\* lines 55-60: encode the payload; an encoding error goes to the backup and the call returns
Report_Encode(u) ==
    /\ ~crashed
    /\ pc[u] = "encode"
    /\ IF EncodeOK(payload[u][1])
       THEN /\ trace' = [trace EXCEPT ![u] = Append(@, Step("encode", NoErr, 0))]
            /\ pc' = [pc EXCEPT ![u] = "request"]
            /\ UNCHANGED <<panicking, out>>
       ELSE LET b == BackupReport(Reporters[u], EncodeErr)
            IN  /\ trace' = [trace EXCEPT ![u] = Append(@, Step("encode", EncodeErr, 0)) \o b.log]
                /\ out' = out \o b.writes
                /\ panicking' = [panicking EXCEPT ![u] = b.panic]
                /\ pc' = [pc EXCEPT ![u] = IF b.panic THEN "panicked" ELSE "returned"]
    /\ UNCHANGED <<config, callerMeta, mrpc, idx, wg, crashed, inv, newErr, mdref, fresh, payload, resp>>

\* lines 62-68: http.NewRequest, WithContext, Content-Type header
Report_NewRequest(u) ==
    /\ ~crashed
    /\ pc[u] = "request"
    /\ \E ok \in {TRUE} \cup {FALSE : f \in Faults \cap {"request"}} :
         IF ok
         THEN /\ trace' = [trace EXCEPT ![u] = Append(@, Step("request", NoErr, 0))]
              /\ pc' = [pc EXCEPT ![u] = "do"]
              /\ UNCHANGED <<panicking, out>>
         ELSE LET b == BackupReport(Reporters[u], RequestErr)
              IN  /\ trace' = [trace EXCEPT ![u] = Append(@, Step("request", RequestErr, 0)) \o b.log]
                  /\ out' = out \o b.writes
                  /\ panicking' = [panicking EXCEPT ![u] = b.panic]
                  /\ pc' = [pc EXCEPT ![u] = IF b.panic THEN "panicked" ELSE "returned"]
    /\ UNCHANGED <<config, callerMeta, mrpc, idx, wg, crashed, inv, newErr, mdref, fresh, payload, resp>>

\* mutant: the return after the backup call of a transport error is missing
Report_Do_NoReturn(u) ==
    /\ ~crashed
    /\ pc[u] = "do"
    /\ \/ LET b == BackupReport(Reporters[u], TransportErr)
          IN  /\ trace' = [trace EXCEPT ![u] = Append(@, Step("do", TransportErr, 0)) \o b.log]
              /\ out' = out \o b.writes
              /\ panicking' = [panicking EXCEPT ![u] = b.panic]
              /\ pc' = [pc EXCEPT ![u] = IF b.panic THEN "panicked" ELSE "status"]
              /\ resp' = resp
       \/ \E status \in Statuses :
              /\ trace' = [trace EXCEPT ![u] = Append(@, Step("do", NoErr, 0))]
              /\ resp' = [resp EXCEPT ![u] = status]
              /\ pc' = [pc EXCEPT ![u] = "status"]
              /\ UNCHANGED <<panicking, out>>
    /\ UNCHANGED <<config, callerMeta, mrpc, idx, wg, crashed, inv, newErr, mdref, fresh, payload>>

\* mutant: after a response the call goes to the drain without checking the status
Report_Do_SkipStatus(u) ==
    /\ ~crashed
    /\ pc[u] = "do"
    /\ \/ LET b == BackupReport(Reporters[u], TransportErr)
          IN  /\ trace' = [trace EXCEPT ![u] = Append(@, Step("do", TransportErr, 0)) \o b.log]
              /\ out' = out \o b.writes
              /\ panicking' = [panicking EXCEPT ![u] = b.panic]
              /\ pc' = [pc EXCEPT ![u] = IF b.panic THEN "panicked" ELSE "returned"]
              /\ resp' = resp
       \/ \E status \in Statuses :
              /\ trace' = [trace EXCEPT ![u] = Append(@, Step("do", NoErr, 0))]
              /\ resp' = [resp EXCEPT ![u] = status]
              /\ pc' = [pc EXCEPT ![u] = "drain"]
              /\ UNCHANGED <<panicking, out>>
    /\ UNCHANGED <<config, callerMeta, mrpc, idx, wg, crashed, inv, newErr, mdref, fresh, payload>>

\* lines 70-75: er.Doer.Do(req); a transport error goes to the backup and the
\* call returns, a response registers the deferred drain-and-close
Report_Do(u) ==
    /\ ~crashed
    /\ pc[u] = "do"
    /\ \/ LET b == BackupReport(Reporters[u], TransportErr)
          IN  /\ trace' = [trace EXCEPT ![u] = Append(@, Step("do", TransportErr, 0)) \o b.log]
              /\ out' = out \o b.writes
              /\ panicking' = [panicking EXCEPT ![u] = b.panic]
              /\ pc' = [pc EXCEPT ![u] = IF b.panic THEN "panicked" ELSE "returned"]
              /\ resp' = resp
       \/ \E status \in Statuses :
              /\ trace' = [trace EXCEPT ![u] = Append(@, Step("do", NoErr, 0))]
              /\ resp' = [resp EXCEPT ![u] = status]
              /\ pc' = [pc EXCEPT ![u] = "status"]
              /\ UNCHANGED <<panicking, out>>
    /\ UNCHANGED <<config, callerMeta, mrpc, idx, wg, crashed, inv, newErr, mdref, fresh, payload>>

\* mutant: a non-200 status is not reported to the backup
Report_Status_Silent(u) ==
    /\ ~crashed
    /\ pc[u] = "status"
    /\ trace' = [trace EXCEPT ![u] = Append(@, Step("status", NoErr, resp[u]))]
    /\ pc' = [pc EXCEPT ![u] = "drain"]
    /\ UNCHANGED <<config, callerMeta, mrpc, idx, wg, crashed, inv, newErr, mdref, fresh, payload, resp, panicking, out>>

\* mutant: the status test is inverted, a 200 response goes to the backup
Report_Status_Inverted(u) ==
    /\ ~crashed
    /\ pc[u] = "status"
    /\ IF resp[u] = StatusOK
       THEN LET b == BackupReport(Reporters[u], DeliveryErr)
            IN  /\ trace' = [trace EXCEPT ![u] = Append(@, Step("status", NoErr, resp[u])) \o b.log]
                /\ out' = out \o b.writes
                /\ panicking' = [panicking EXCEPT ![u] = b.panic]
       ELSE /\ trace' = [trace EXCEPT ![u] = Append(@, Step("status", NoErr, resp[u]))]
            /\ UNCHANGED <<panicking, out>>
    /\ pc' = [pc EXCEPT ![u] = "drain"]
    /\ UNCHANGED <<config, callerMeta, mrpc, idx, wg, crashed, inv, newErr, mdref, fresh, payload, resp>>

\* lines 86-89: the status check; the deferred function runs afterwards in every case
Report_Status(u) ==
    /\ ~crashed
    /\ pc[u] = "status"
    /\ IF resp[u] # StatusOK
       THEN LET b == BackupReport(Reporters[u], DeliveryErr)
            IN  /\ trace' = [trace EXCEPT ![u] = Append(@, Step("status", NoErr, resp[u])) \o b.log]
                /\ out' = out \o b.writes
                /\ panicking' = [panicking EXCEPT ![u] = b.panic]
       ELSE /\ trace' = [trace EXCEPT ![u] = Append(@, Step("status", NoErr, resp[u]))]
            /\ UNCHANGED <<panicking, out>>
    /\ pc' = [pc EXCEPT ![u] = "drain"]
    /\ UNCHANGED <<config, callerMeta, mrpc, idx, wg, crashed, inv, newErr, mdref, fresh, payload, resp>>

\* lines 76-79 (deferred): io.Copy(ioutil.Discard, io.LimitReader(resp.Body, 1024))
Report_Drain(u) ==
    /\ ~crashed
    /\ pc[u] = "drain"
    /\ \E len \in BodyLens, ok \in {TRUE} \cup {FALSE : f \in Faults \cap {"drain"}} :
         IF ok
         THEN /\ trace' = [trace EXCEPT ![u] = Append(@, Step("drain", NoErr, Min(len, LimitBytes)))]
              /\ pc' = [pc EXCEPT ![u] = "close"]
              /\ UNCHANGED <<panicking, out>>
         ELSE LET b == BackupReport(Reporters[u], DrainErr)
              IN  /\ trace' = [trace EXCEPT ![u] = Append(@, Step("drain", DrainErr, 0)) \o b.log]
                  /\ out' = out \o b.writes
                  /\ panicking' = [panicking EXCEPT ![u] = panicking[u] \/ b.panic]
                  /\ pc' = [pc EXCEPT ![u] = IF b.panic THEN "panicked" ELSE "close"]
    /\ UNCHANGED <<config, callerMeta, mrpc, idx, wg, crashed, inv, newErr, mdref, fresh, payload, resp>>

\* lines 80-84 (deferred): resp.Body.Close(), then the call returns, or
\* goes on panicking when the status check's backup call panicked
Report_Close(u) ==
    /\ ~crashed
    /\ pc[u] = "close"
    /\ \E ok \in {TRUE} \cup {FALSE : f \in Faults \cap {"close"}} :
         IF ok
         THEN /\ trace' = [trace EXCEPT ![u] = Append(@, Step("close", NoErr, 0))]
              /\ pc' = [pc EXCEPT ![u] = IF panicking[u] THEN "panicked" ELSE "returned"]
              /\ UNCHANGED <<panicking, out>>
         ELSE LET b == BackupReport(Reporters[u], CloseErr)
              IN  /\ trace' = [trace EXCEPT ![u] = Append(@, Step("close", CloseErr, 0)) \o b.log]
                  /\ out' = out \o b.writes
                  /\ panicking' = [panicking EXCEPT ![u] = panicking[u] \/ b.panic]
                  /\ pc' = [pc EXCEPT ![u] = IF panicking[u] \/ b.panic THEN "panicked" ELSE "returned"]
    /\ UNCHANGED <<config, callerMeta, mrpc, idx, wg, crashed, inv, newErr, mdref, fresh, payload, resp>>

\* WriterReporter.Report called as a reporter of its own (lines 211-216)
Writer_Report(u) ==
    /\ ~crashed
    /\ IsWriter(u)
    /\ pc[u] = "called"
    /\ out' = out \o WriterReport(Reporters[u].Writer, Args(u).err)
    /\ trace' = [trace EXCEPT ![u] = Append(@, Step("write", Args(u).err, 0))]
    /\ pc' = [pc EXCEPT ![u] = "returned"]
    /\ UNCHANGED <<config, callerMeta, mrpc, idx, wg, crashed, inv, newErr, mdref, fresh, payload, resp, panicking>>

Next ==
    \/ MultiReport_Enter
    \/ MultiReport_Spawn
    \/ MultiReport_LoopEnd
    \/ MultiReport_Wait
    \/ Direct_Call
    \/ \E u \in Units : Go_Done(u)
    \/ \E u \in Units : Go_Crash(u)
    \/ \E u \in Units : Report_Payload(u)
    \/ Shared_Call
    \/ \E u \in Units : Report_Resolve(u)
    \/ \E u \in Units : Report_StoreClass(u)
    \/ \E u \in Units : Report_StoredClass(u)
    \/ \E u \in Units : Report_TestSeverity(u)
    \/ \E u \in Units : Report_StoreSeverity(u)
    \/ \E u \in Units : Report_StoredSeverity(u)
    \/ \E u \in Units : Report_Build(u)
    \/ \E u \in Units : Report_Encode(u)
    \/ \E u \in Units : Report_NewRequest(u)
    \/ \E u \in Units : Report_Do(u)
    \/ \E u \in Units : Report_Status(u)
    \/ \E u \in Units : Report_Drain(u)
    \/ \E u \in Units : Report_Close(u)
    \/ \E u \in Units : Writer_Report(u)

Spec == Init /\ [][Next]_vars

\* goroutines and the caller keep running: every enabled step is eventually taken
FairSpec == Spec /\ WF_vars(Next)

TypeOK ==
    /\ wg \in 0..MaxReporters
    /\ idx \in 0..NumReporters
    /\ \A u \in Units : Len(inv[u]) <= 1

\* ------------------------------------------------------------ properties
Registered == 1..NumReporters

RunningPcs == {"called", "class1", "class2", "sev0", "sev1", "sev2", "build",
               "encode", "request", "do", "status", "drain", "close"}

\* the Report call of unit u has returned to its caller
Returned(u) == pc[u] \in {"returned", "done"}

\* the Report call of unit u was left by a panic
Panicked(u) == pc[u] \in {"panicked", "unwound"}

CountStep(t, s) == Cardinality({i \in DOMAIN t : t[i].step = s})

Backups(t) == SelectSeq(t, LAMBDA x : x.step = "backup")

Failed(t, s) == \E i \in DOMAIN t : t[i].step = s /\ t[i].err # NoErr

\* the metadata as the caller supplied it to unit u's call (the zero value when none)
Supplied(u) == IF Len(Args(u).meta) > 0 THEN Args(u).snapshot ELSE ZeroMetadata

Event(u) == payload[u][1].events[1]

\* C1: MultiReporter.Report has returned only when no registered sub-reporter's
\* Report is still not started or still running.
C1_ReturnAfterAll ==
    (mode = "multi" /\ mrpc = "returned") =>
        \A u \in Registered : pc[u] \notin ({"idle"} \cup RunningPcs)

C1_Witness ==
    /\ mode = "multi" /\ mrpc = "returned" /\ NumReporters >= 2
    /\ \A u \in Registered : pc[u] = "done"
    /\ \E u \in Registered : CountStep(trace[u], "close") = 1

\* C2: by the time MultiReporter.Report returns every registered reporter has
\* observed exactly one Report invocation, carrying the caller's err and ctx;
\* no reporter ever observes more than one, unregistered units none.
C2_ExactlyOnce ==
    mode = "multi" =>
        /\ \A u \in Units : Len(inv[u]) <= 1
        /\ \A u \in Units \ Registered : inv[u] = <<>>
        /\ \A u \in Registered : inv[u] # <<>> => inv[u][1].err = callErr /\ inv[u][1].ctx = callCtx
        /\ mrpc \in {"wait", "returned"} => \A u \in Registered : Len(inv[u]) = 1

C2_Witness ==
    /\ mode = "multi" /\ mrpc = "returned" /\ NumReporters >= 2
    /\ \E j \in Registered : Backups(trace[j]) # <<>>
    /\ \A u \in Registered : Len(inv[u]) = 1 /\ inv[u][1].err = callErr

\* C3: a panic in one sub-reporter's Report does not prevent the others from
\* completing, and the parent call still reaches its return: when the program
\* has stopped after a panic, every other sub-reporter has completed its Report
\* and MultiReporter.Report has returned.
C3_PanicContained ==
    (mode = "multi" /\ crashed) =>
        /\ mrpc = "returned"
        /\ \A u \in Registered : Returned(u) \/ Panicked(u)

\* C4: with zero reporters MultiReporter.Report returns without invoking any
\* reporter; the WaitGroup counter equals the number of spawned units that have
\* not yet called Done, so at the barrier it is zero exactly when all units
\* have finished; and the call eventually returns unless a sub-reporter panics.
C4_Barrier ==
    /\ [](mode = "multi" =>
            /\ wg = Cardinality({u \in 1..idx : pc[u] \notin {"done", "unwound"}})
            /\ mrpc \in {"wait", "returned"} => (wg = 0 <=> \A u \in Registered : pc[u] \in {"done", "unwound"})
            /\ (NumReporters = 0 /\ mrpc = "returned") => \A u \in Units : inv[u] = <<>> /\ pc[u] = "idle")
    /\ <>(mode # "multi" \/ mrpc = "returned" \/ \E u \in Units : Panicked(u))

C4_Witness ==
    /\ mode = "multi" /\ mrpc = "returned" /\ wg = 0
    /\ NumReporters >= 2
    /\ \A u \in Registered : pc[u] = "done"

\* C5: in a BugsnagReporter.Report call whose Do returned an error, Do was
\* invoked exactly once, no status, drain or close step runs, and the backup
\* is invoked at most once, exactly once by the time the call has returned,
\* with the transport's error, which is neither nil nor the reported error.
C5_TransportFailure ==
    \A u \in Units : Failed(trace[u], "do") =>
        /\ CountStep(trace[u], "do") = 1
        /\ CountStep(trace[u], "status") = 0
        /\ CountStep(trace[u], "drain") = 0
        /\ CountStep(trace[u], "close") = 0
        /\ pc[u] \notin RunningPcs
        /\ Len(Backups(trace[u])) <= 1
        /\ Returned(u) =>
              /\ Len(Backups(trace[u])) = 1
              /\ Backups(trace[u])[1].err = TransportErr
              /\ Backups(trace[u])[1].err \notin {NoErr, newErr[u], Args(u).err}

C5_Witness ==
    \E u \in Units : /\ Failed(trace[u], "do")
                     /\ Returned(u)
                     /\ Len(Backups(trace[u])) = 1

C7_NoPropagation == ~crashed /\ \A u \in Units : ~Panicked(u)

\* C8: the errorClass of the payload's exception is the type name of the
\* error passed to Report when the caller gave no ErrorClass, and the
\* caller's ErrorClass otherwise.
C8_ErrorClass ==
    \A u \in Units : payload[u] # <<>> =>
        Event(u).exceptions[1].errorClass =
            IF Supplied(u).ErrorClass = "" THEN TypeOf(Args(u).err) ELSE Supplied(u).ErrorClass

\* C9: the event's severity is "error" when the supplied metadata has no
\* Severity (or no metadata was supplied), and the supplied Severity otherwise.
C9_Severity ==
    \A u \in Units : payload[u] # <<>> =>
        Event(u).severity = IF Supplied(u).Severity = "" THEN "error" ELSE Supplied(u).Severity

C9_Witness ==
    \E u \in Units : payload[u] # <<>> /\ Len(Args(u).meta) > 0 /\ Supplied(u).Severity = "" /\ Event(u).severity = "error"

\* C10: the event has the key groupingHash exactly when the supplied
\* GroupingHash is non-empty, and the key context exactly when the supplied
\* Context is non-empty; a present key carries the metadata field's value.
C10_OptionalKeys ==
    \A u \in Units : payload[u] # <<>> =>
        /\ "groupingHash" \in DOMAIN Event(u) <=> Supplied(u).GroupingHash # ""
        /\ "context" \in DOMAIN Event(u) <=> Supplied(u).Context # ""
        /\ "groupingHash" \in DOMAIN Event(u) => Event(u).groupingHash = Supplied(u).GroupingHash
        /\ "context" \in DOMAIN Event(u) => Event(u).context = Supplied(u).Context

C10_Witness ==
    \E u \in Units : /\ payload[u] # <<>>
                     /\ Supplied(u).GroupingHash = "net.timeout" /\ Supplied(u).Context = ""
                     /\ "groupingHash" \in DOMAIN Event(u) /\ "context" \notin DOMAIN Event(u)

C12_WriterAppend ==
    [][\A u \in Units : (IsWriter(u) /\ pc[u] = "called" /\ pc'[u] = "returned") =>
            /\ out' = IF Reporters[u].Writer = "nil" THEN out ELSE Append(out, Args(u).err.msg \o "\n")
            /\ UNCHANGED <<callerMeta, fresh, payload, resp, panicking, crashed, wg, inv>>]_vars

C12_Witness ==
    \E u \in Units : /\ IsWriter(u) /\ Returned(u)
                     /\ Reporters[u].Writer = "stream"
                     /\ out = << Args(u).err.msg \o "\n" >>

\* C13: the stacktrace in the payload has one entry less than the captured
\* frame sequence: it omits the first captured frame and has, in capture
\* order, one {method, file, lineNumber} entry for each remaining frame.
C13_StackFormat ==
    \A u \in Units : payload[u] # <<>> =>
        LET captured == newErr[u].stack
            st == Event(u).exceptions[1].stacktrace
        IN  /\ Len(captured) >= 1
            /\ Len(st) = Len(captured) - 1
            /\ \A i \in 1..Len(st) :
                  st[i] = [method |-> captured[i + 1].name, file |-> captured[i + 1].base,
                           lineNumber |-> captured[i + 1].line]

C13_Witness ==
    \E u \in Units : /\ payload[u] # <<>>
                     /\ Len(newErr[u].stack) = 3
                     /\ Len(Event(u).exceptions[1].stacktrace) = 2
                     /\ Event(u).exceptions[1].stacktrace[1] # Event(u).exceptions[1].stacktrace[2]
                     /\ Event(u).exceptions[1].stacktrace[1].lineNumber = newErr[u].stack[2].line

\* C14: under MultiReporter.Report every sub-reporter is invoked with the
\* context, the base error and an empty metadata argument list, whether or not
\* the caller passed metadata; no sub-reporter works on the caller's metadata.
C14_NoMetadataForwarded ==
    mode = "multi" =>
        \A u \in Units :
            /\ \A i \in DOMAIN inv[u] :
                  inv[u][i].meta = <<>> /\ inv[u][i].ctx = callCtx /\ inv[u][i].err = callErr
            /\ mdref[u] = "fresh"

C14_Witness ==
    /\ mode = "multi" /\ callMeta # <<>>
    /\ \E u \in Registered : /\ inv[u] # <<>> /\ inv[u][1].meta = <<>>
                             /\ payload[u] # <<>> /\ Event(u).severity = "error"

\* C15: when encoding the payload fails, the call stops there: no request is
\* constructed, Do is never invoked, no status, drain or close step runs, and
\* the backup is invoked at most once, exactly once by the time the call has
\* returned, with the encoding error and not the reported error; when request
\* construction fails, likewise with that error, and Do is never invoked.
C15_EarlyFailure ==
    \A u \in Units :
        /\ Failed(trace[u], "encode") =>
              /\ \A s \in {"request", "do", "status", "drain", "close"} : CountStep(trace[u], s) = 0
              /\ pc[u] \notin RunningPcs
              /\ Len(Backups(trace[u])) <= 1
              /\ Returned(u) =>
                    /\ Len(Backups(trace[u])) = 1
                    /\ Backups(trace[u])[1].err = EncodeErr
                    /\ Backups(trace[u])[1].err \notin {NoErr, newErr[u], Args(u).err}
        /\ Failed(trace[u], "request") =>
              /\ \A s \in {"do", "status", "drain", "close"} : CountStep(trace[u], s) = 0
              /\ pc[u] \notin RunningPcs
              /\ Len(Backups(trace[u])) <= 1
              /\ Returned(u) =>
                    /\ Len(Backups(trace[u])) = 1
                    /\ Backups(trace[u])[1].err = RequestErr
                    /\ Backups(trace[u])[1].err \notin {NoErr, newErr[u], Args(u).err}

C15_Witness ==
    \E u \in Units : /\ Failed(trace[u], "encode")
                     /\ Returned(u)
                     /\ Len(Backups(trace[u])) = 1
                     /\ CountStep(trace[u], "do") = 0

\* position of the first step named s in trace t, 0 when there is none
Pos(t, s) == IF CountStep(t, s) = 0 THEN 0 ELSE CHOOSE i \in DOMAIN t : t[i].step = s /\ \A j \in 1..(i - 1) : t[j].step # s

\* C16: a call for which Do returned a response has, when it ends, drained the
\* body once (at most 1024 bytes) and then closed it once, whatever the status;
\* the close is attempted even when the drain failed, and each of a drain error
\* and a close error has gone to the backup in an invocation of its own.
C16_DrainThenClose ==
    \A u \in Units : (resp[u] # 0 /\ (Returned(u) \/ Panicked(u))) =>
        /\ CountStep(trace[u], "drain") = 1
        /\ CountStep(trace[u], "close") = 1
        /\ Pos(trace[u], "drain") < Pos(trace[u], "close")
        /\ trace[u][Pos(trace[u], "drain")].n <= LimitBytes
        /\ Reporters[u].Backup # "nil" =>
              /\ Failed(trace[u], "drain") <=> \E i \in DOMAIN trace[u] : trace[u][i] = Step("backup", DrainErr, 0)
              /\ Failed(trace[u], "close") <=> \E i \in DOMAIN trace[u] : trace[u][i] = Step("backup", CloseErr, 0)

\* the steps of BugsnagReporter.Report in the order the code runs them
StepOrder == <<"payload", "encode", "request", "do", "status", "drain", "close">>

\* the steps of trace t that are steps of StepOrder (no backup invocations, no field writes)
OwnSteps(t) == SelectSeq(t, LAMBDA x : x.step \in {StepOrder[i] : i \in DOMAIN StepOrder})

C18_SuccessPath ==
    \A u \in Units :
        (IsBugsnag(u) /\ resp[u] = StatusOK /\ ~Failed(trace[u], "drain") /\ ~Failed(trace[u], "close")) =>
            /\ Backups(trace[u]) = <<>>
            /\ CountStep(trace[u], "do") = 1
            /\ ~Panicked(u) /\ ~panicking[u]
            /\ CountStep(trace[u], "close") = 1 => Returned(u)

C18_Witness ==
    \E u \in Units : /\ IsBugsnag(u) /\ Reporters[u].Backup = "nil"
                     /\ resp[u] = StatusOK /\ Returned(u)
                     /\ CountStep(trace[u], "close") = 1
                     /\ Backups(trace[u]) = <<>>

\* C20: when all n reporters of a MultiReporter are BugsnagReporters with the
\* same WriterReporter as backup and every transport failed, then at the return
\* of MultiReporter.Report every sub-reporter has made exactly one backup
\* invocation, with its transport error, all of them have completed, and the
\* shared backup has received exactly n invocations.
C20_SharedBackup ==
    (/\ mode = "multi" /\ mrpc = "returned"
     /\ \A u \in Registered : Reporters[u] = BugsnagWriterBackup /\ Failed(trace[u], "do")) =>
        /\ \A u \in Registered : pc[u] = "done" /\ Backups(trace[u]) = <<Step("backup", TransportErr, 0)>>
        /\ Len(out) = NumReporters
        /\ \A i \in DOMAIN out : out[i] = TransportErr.msg \o "\n"

C20_Witness ==
    /\ mode = "multi" /\ mrpc = "returned" /\ NumReporters >= 2
    /\ \A u \in Registered : Reporters[u] = BugsnagWriterBackup /\ Failed(trace[u], "do")
    /\ Len(out) = NumReporters

\* unit u's call has stored the named field of the metadata object
Wrote(u, s) == CountStep(trace[u], s) > 0

\* unit u's call was given a metadata object and has passed populateMetadata
Populated(u) == IsBugsnag(u) /\ inv[u] # <<>> /\ Len(Args(u).meta) > 0 /\ payload[u] # <<>>

\* C19: BugsnagReporter.Report applies the defaults in place on the metadata
\* object the caller supplied: Context, GroupingHash and EventMetadata of the
\* object are never modified, an ErrorClass or Severity that was non-empty is
\* unchanged, and once a call has passed populateMetadata both fields of the
\* object are non-empty (the error's type name and "error" where they were
\* empty). A call stores a field only if the object was supplied with that
\* field empty, and of two concurrent calls given the same object with an
\* empty field at least one stores it.
C19_InPlaceDefaults ==
    \A u \in Units :
        (IsBugsnag(u) /\ inv[u] # <<>> /\ Len(Args(u).meta) > 0) =>
            LET m0 == Args(u).snapshot IN
            /\ callerMeta.Context = m0.Context
            /\ callerMeta.GroupingHash = m0.GroupingHash
            /\ callerMeta.EventMetadata = m0.EventMetadata
            /\ m0.ErrorClass # "" => callerMeta.ErrorClass = m0.ErrorClass
            /\ m0.Severity # "" => callerMeta.Severity = m0.Severity
            /\ Wrote(u, "write_class") => m0.ErrorClass = ""
            /\ Wrote(u, "write_severity") => m0.Severity = ""
            /\ Populated(u) =>
                  /\ callerMeta.ErrorClass = (IF m0.ErrorClass = "" THEN TypeOf(newErr[u]) ELSE m0.ErrorClass)
                  /\ callerMeta.Severity = (IF m0.Severity = "" THEN "error" ELSE m0.Severity)
                  /\ (mode = "shared" /\ m0.ErrorClass = "") => \E v \in SharedCallers : Wrote(v, "write_class")
                  /\ (mode = "shared" /\ m0.Severity = "") => \E v \in SharedCallers : Wrote(v, "write_severity")

\* C19 as stated: two concurrent calls given the same metadata object with
\* empty ErrorClass and Severity both store the two fields.
C19_BothWrite ==
    (/\ mode = "shared"
     /\ \A u \in SharedCallers : Populated(u) /\ Args(u).snapshot.ErrorClass = "" /\ Args(u).snapshot.Severity = "") =>
        \A u \in SharedCallers : Wrote(u, "write_class") /\ Wrote(u, "write_severity")

C19_Witness ==
    /\ mode = "shared"
    /\ \A u \in SharedCallers : Populated(u) /\ Wrote(u, "write_class") /\ Returned(u)
    /\ callerMeta.ErrorClass = "*errors.withStack"
    /\ callerMeta.Severity = "error"

====
